---- MODULE Spec2Model ----
(***************************************************************************)
(* The chat-session manager of the Civic-AI dashboard                      *)
(* (src/client/app/dashboard/page.tsx) with the input bar that drives it   *)
(* and the REST backend it talks to.                                       *)
(*                                                                         *)
(* The Dashboard is a React function component: every handler is a closure *)
(* over the state of the render that created it.  A handler that awaits a  *)
(* request keeps the activeChat / selectedImage it captured when it was    *)
(* called; only the functional updates setChats(prev => ...) see the       *)
(* current state.  Each action below is one synchronous segment of a       *)
(* handler (up to its next await) together with the effects React runs     *)
(* after the render that follows it.                                       *)
(***************************************************************************)
EXTENDS Integers, Sequences, FiniteSets, TLC

\* ------------------------------------------------------------ bounds
MaxSends == 2          \* accepted sends in one run
MaxUserEvents == 3     \* user events (clicks, keystrokes, submits) in one run

\* ------------------------------------------------------------ values
Null == 0              \* activeChat === null; chat ids are 1, 2, ...
NoImage == [name |-> "", type |-> <<>>, size |-> 0]  \* selectedImage === null
\* texts the user may type: empty, blank, a question
Texts == {<<>>, <<" ">>, <<"a">>}

\* File.type is a string of characters; file.type.startsWith('image/')
ImagePrefix == <<"i", "m", "a", "g", "e", "/">>
ImagePng == ImagePrefix \o <<"p", "n", "g">>
ApplicationPdf == <<"a", "p", "p", "l", "i", "c", "a", "t", "i", "o", "n", "/", "p", "d", "f">>
ImageOnly == <<"i", "m", "a", "g", "e">>         \* a type that stops before the slash
StartsWith(s, prefix) ==
    Len(s) >= Len(prefix) /\ SubSeq(s, 1, Len(prefix)) = prefix
MaxFileSize == 10 * 1024 * 1024
\* files the user may pick: a small image, a document, a file whose type is
\* "image", one with no type, an image of exactly the size limit and one a
\* byte over it
Files ==
    {[name |-> "notice.png", type |-> ImagePng, size |-> 2048],
     [name |-> "notice.pdf", type |-> ApplicationPdf, size |-> 2048],
     [name |-> "notice", type |-> ImageOnly, size |-> 2048],
     [name |-> "notice.bin", type |-> <<>>, size |-> 2048],
     [name |-> "scan.png", type |-> ImagePng, size |-> MaxFileSize],
     [name |-> "poster.png", type |-> ImagePng, size |-> MaxFileSize + 1]}

\* the white space of String.prototype.trim and of \s: a blank, a tab
Whitespace == {" ", "\t"}
\* String.prototype.trim on a sequence of characters
RECURSIVE TrimStart(_)
TrimStart(s) ==
    IF s # <<>> /\ Head(s) \in Whitespace THEN TrimStart(Tail(s)) ELSE s
RECURSIVE TrimEnd(_)
TrimEnd(s) ==
    IF s # <<>> /\ s[Len(s)] \in Whitespace
    THEN TrimEnd(SubSeq(s, 1, Len(s) - 1)) ELSE s
Trim(s) == TrimEnd(TrimStart(s))

\* Message { id, type, content, timestamp }: content is kept as its parts
Content(image, question, note) ==
    [image |-> image, question |-> question, note |-> note]
Msg(id, type, content, timestamp) ==
    [id |-> id, type |-> type, content |-> content, timestamp |-> timestamp]
IsLocalId(id) == id[1] = "tmp"

SeqToSet(s) == {s[i] : i \in 1..Len(s)}
Ids(cs) == {cs[i].id : i \in 1..Len(cs)}
RECURSIVE WithoutChat(_, _)
WithoutChat(s, id) ==
    IF s = <<>> THEN <<>>
    ELSE (IF Head(s).id # id THEN <<Head(s)>> ELSE <<>>) \o WithoutChat(Tail(s), id)

VARIABLES
    chats,          \* useState<Chat[]>: sequence of [id, messages]
    activeChat,     \* useState<string | null>
    isLoading,      \* useState(false)
    inputValue,     \* useState("")
    selectedImage,  \* useState<File | null>
    send,           \* the running handleSendMessage call and its POST
    fetches,        \* running fetchChats / fetchMessages calls
    deletes,        \* running handleDeleteChat calls
    serverChats,    \* backend: chats, most recently updated first
    nextChatId,     \* backend: id of the next chat it creates
    nSends,         \* accepted sends so far
    nEvents,        \* user events so far
    ev,             \* the step that led to this state
    chatMessage,    \* a ChatMessage component: its message prop, what it drew
    signUpPage      \* the SignUpPage component: formData, errors, isLoading

vars == <<chats, activeChat, isLoading, inputValue, selectedImage, send, fetches,
          deletes, serverChats, nextChatId, nSends, nEvents, ev, chatMessage,
          signUpPage>>

\* the Dashboard with its backend, and the two components modelled on their own
dashboard == <<chats, activeChat, isLoading, inputValue, selectedImage, send,
               fetches, deletes, serverChats, nextChatId, nSends, nEvents, ev>>
pages == <<chatMessage, signUpPage>>

client == <<chats, activeChat, isLoading, inputValue, selectedImage>>
server == <<serverChats, nextChatId>>

\* The component's state as one record, so that a handler is a function on it
Client ==
    [chats |-> chats, activeChat |-> activeChat, isLoading |-> isLoading,
     inputValue |-> inputValue, selectedImage |-> selectedImage]

\* ------------------------------------------------------------ requests
\* A running fetchChats / fetchMessages call.  activeChat is the value the
\* closure captured; awaited says that handleSendMessage awaits the call.
\* For the fetchChats a send in an existing chat ends with, refetched says that
\* the fetchMessages before it succeeded and at is the number of user events
\* when the send was accepted.
Fetch(kind, chatId, captured, awaited, refetched, at) ==
    [kind |-> kind, chatId |-> chatId, activeChat |-> captured, awaited |-> awaited,
     refetched |-> refetched, at |-> at, n |-> 0]
Delete(chatId, captured) == [chatId |-> chatId, activeChat |-> captured, n |-> 0]
\* two identical calls in flight are two requests
Fresh(set, r) ==
    [r EXCEPT !.n = CHOOSE k \in 0..Cardinality(set) :
                        /\ [r EXCEPT !.n = k] \notin set
                        /\ \A j \in 0..(k - 1) : [r EXCEPT !.n = j] \in set]
Add(set, r) == set \cup {Fresh(set, r)}

IdleSend ==
    [stage |-> "idle", endpoint |-> "", activeChat |-> Null, selectedImage |-> NoImage,
     message |-> <<>>, chat_id |-> Null, at |-> 0, before |-> {}, deleted |-> FALSE]

\* The step that was taken: the handler, its argument, the activeChat its
\* closure captured and its outcome; for a send also the text and the call,
\* for a failed POST the detail of the response, and the text of the
\* window.alert the step raised, if any; for a file selection the file.
Event(op, id, captured, ok) ==
    [op |-> op, id |-> id, active |-> captured, ok |-> ok,
     text |-> <<>>, quiet |-> FALSE, call |-> IdleSend, detail |-> "", alert |-> "",
     file |-> NoImage]

\* useEffect(() => { if (activeChat) fetchMessages(activeChat) }, [activeChat]):
\* runs after a render in which activeChat differs from the render before
EffectActiveChat(fs, old, new) ==
    IF new # old /\ new # Null
    THEN Add(fs, Fetch("messages", new, Null, FALSE, FALSE, 0))
    ELSE fs

\* Commit a handler segment: the new component state, the calls it started,
\* and the effect of the render that follows
Commit(st, fs) ==
    /\ chats' = st.chats
    /\ activeChat' = st.activeChat
    /\ isLoading' = st.isLoading
    /\ inputValue' = st.inputValue
    /\ selectedImage' = st.selectedImage
    /\ fetches' = EffectActiveChat(fs, activeChat, st.activeChat)

\* ------------------------------------------------------------ state updates
\* setChats(prev => prev.map(chat => chat.id === id
\*     ? {...chat, messages: [...chat.messages, m], lastUpdated: new Date()} : chat))
\* m was built in the same tick: its timestamp is that new Date()
AppendMessage(cs, id, m) ==
    [i \in 1..Len(cs) |->
        IF cs[i].id = id
        THEN [cs[i] EXCEPT !.messages = Append(@, m), !.lastUpdated = m.timestamp]
        ELSE cs[i]]

\* setChats(prev => prev.map(chat => chat.id === chatId ? {...chat, messages} : chat))
ReplaceMessages(cs, id, ms) ==
    [i \in 1..Len(cs) |->
        IF cs[i].id = id THEN [cs[i] EXCEPT !.messages = ms] ELSE cs[i]]

\* response.data.map(chat => ({id, title, messages: [], lastUpdated}))
FetchedChats(list) ==
    [i \in 1..Len(list) |->
        [id |-> list[i].id, messages |-> <<>>, lastUpdated |-> list[i].updated_at]]

\* setChats(prev => prev.filter(chat => chat.id !== chatId))
RemoveChat(cs, id) == WithoutChat(cs, id)

\* getCurrentChat()?.messages: the conversation on screen
CurrentMessages(cs, active) ==
    IF \E i \in 1..Len(cs) : cs[i].id = active
    THEN cs[CHOOSE i \in 1..Len(cs) : cs[i].id = active].messages
    ELSE <<>>
MessagesOf(cs, id) == CurrentMessages(cs, id)

\* mutant: only the latest message is drawn
RenderMessagesLatest(cs, active) ==
    LET ms == CurrentMessages(cs, active)
    IN  IF ms = <<>> THEN <<>>
        ELSE <<[key |-> ms[Len(ms)].id, message |-> ms[Len(ms)]]>>

\* {getCurrentChat()?.messages.map((message) =>
\*     <ChatMessage key={message.id} message={message} />)}: the bubbles drawn
RenderMessages(cs, active) ==
    LET ms == CurrentMessages(cs, active)
    IN  [i \in 1..Len(ms) |-> [key |-> ms[i].id, message |-> ms[i]]]

\* ------------------------------------------------------------ backend
\* The REST backend (FastAPI) is not part of the client sources; it follows
\* the contract of the interface description.
AiAnswer == Content("", <<>>, "answer")
ServerMsgId(chatId, k) == <<"srv", chatId, k>>
ErrorStatuses == {0, 400, 401, 500}        \* 0: no response at all
Details == {"", "Question is required"}    \* response.data.detail

\* the backend's clock when it serves the POST of the send accepted at sent
ServerTime(sent) == sent + 1

ServerHas(id) == id \in Ids(serverChats)
ServerMessages(id) == MessagesOf(serverChats, id)

\* post-query / post-ocr: create the chat if chat_id is absent, append the
\* user message and the AI message, both created at the backend's time now;
\* the chat is updated at that time and becomes the most recent one
ServerPost(cs, next, chat_id, content, now) ==
    LET id == IF chat_id = Null THEN next ELSE chat_id
        old == MessagesOf(cs, id)
        new == old \o <<Msg(ServerMsgId(id, Len(old) + 1), "user", content, now),
                        Msg(ServerMsgId(id, Len(old) + 2), "ai", AiAnswer, now)>>
    IN  [chats |-> <<[id |-> id, messages |-> new, updated_at |-> now]>>
                      \o RemoveChat(cs, id),
         next |-> IF chat_id = Null THEN next + 1 ELSE next,
         chat_id |-> id]

\* ------------------------------------------------------------ InputBar.handleFileSelect
\* mutant: the size test is >= instead of >
FileAcceptedBelowLimit(file) ==
    StartsWith(file.type, ImagePrefix) /\ ~(file.size >= MaxFileSize)

\* mutant: the type of the file is not looked at
FileAcceptedAnyType(file) == ~(file.size > MaxFileSize)

\* if (!file.type.startsWith('image/')) { alert(...); return; }
\* if (file.size > 10 * 1024 * 1024) { alert(...); return; }
FileAccepted(file) ==
    StartsWith(file.type, ImagePrefix) /\ ~(file.size > MaxFileSize)

FileAlert(file) ==
    IF ~StartsWith(file.type, ImagePrefix)
    THEN "Please select an image file (PNG, JPG, JPEG)"
    ELSE IF file.size > MaxFileSize THEN "File size must be less than 10MB"
    ELSE ""

\* ------------------------------------------------------------ handleSendMessage
\* mutant: the guard without its isLoading test
SendRejectedWhileIdle(message, image, loading) ==
    Trim(message) = <<>> /\ image = NoImage

\* if ((!message.trim() && !selectedImage) || isLoading) return;
SendRejected(message, image, loading) ==
    (Trim(message) = <<>> /\ image = NoImage) \/ loading

\* the content of the optimistic message
UserContent(image, message) ==
    IF image # NoImage
    THEN Content(image.name, IF Trim(message) # <<>> THEN message ELSE <<>>, "")
    ELSE Content("", message, "")

\* Date.now(): a clock that has advanced by the time of the next send
Now(sends) == 2 * sends
\* const tempId = Date.now().toString();  id: (Date.now() + 1).toString()
TempId(now) == <<"tmp", now>>
ErrorId(now) == <<"tmp", now + 1>>

\* the synchronous part of an accepted send, up to the await of the POST
OptimisticUpdate(st, message, tempId) ==
    [st EXCEPT
        !.chats = AppendMessage(st.chats, st.activeChat,
                      Msg(tempId, "user", UserContent(st.selectedImage, message),
                          tempId[2])),
        !.inputValue = <<>>,
        !.isLoading = TRUE]

\* mutant: the image branch is missing, every send goes to /api/query
PostRequestQueryOnly(st, message) ==
    [stage |-> "post", endpoint |-> "/api/query", activeChat |-> st.activeChat,
     selectedImage |-> st.selectedImage, message |-> message, chat_id |-> Null,
     at |-> nEvents + 1, before |-> Ids(serverChats), deleted |-> FALSE]

\* the request the handler issues: its endpoint and its chat_id
PostRequest(st, message) ==
    [stage |-> "post",
     endpoint |-> IF st.selectedImage # NoImage THEN "/api/ocr" ELSE "/api/query",
     activeChat |-> st.activeChat,
     selectedImage |-> st.selectedImage, message |-> message, chat_id |-> Null,
     at |-> nEvents + 1, before |-> Ids(serverChats), deleted |-> FALSE]

\* mutant: a 400 always gets the fixed text
ErrorMessageNoDetail(status, detail) ==
    IF status = 400 THEN "Please check your input."
    ELSE "I'm sorry, I'm having trouble connecting to the server right now."

\* mutant: the detail of the response is shown whatever the status
ErrorMessageAnyDetail(status, detail) ==
    IF detail # "" THEN detail
    ELSE IF status = 400 THEN "Please check your input."
    ELSE "I'm sorry, I'm having trouble connecting to the server right now."

\* mutant: the multipart request never carries a chat_id
RequestChatIdQueryOnly(endpoint, captured) ==
    IF endpoint = "/api/ocr" THEN Null ELSE captured

\* /api/ocr: if (activeChat) formData.append('chat_id', activeChat);
\* /api/query: chat_id: activeChat.  An absent chat_id and a null one are Null.
RequestChatId(endpoint, captured) ==
    IF endpoint = "/api/ocr"
    THEN (IF captured # Null THEN captured ELSE Null)
    ELSE captured

\* let errorMessage = ...; if (error.response?.status === 400) ...
ErrorMessage(status, detail) ==
    IF status = 400
    THEN (IF detail # "" THEN detail ELSE "Please check your input.")
    ELSE "I'm sorry, I'm having trouble connecting to the server right now."

\* mutant: the error bubble goes to the chat that is active when the POST fails
SendFailedCurrent(st, captured, status, detail, errorId) ==
    [st EXCEPT
        !.chats = AppendMessage(st.chats, st.activeChat,
                      Msg(errorId, "ai", Content("", <<>>, ErrorMessage(status, detail)),
                          errorId[2])),
        !.isLoading = FALSE]

\* catch (error) ... finally: the error bubble, then setIsLoading(false)
SendFailed(st, captured, status, detail, errorId) ==
    [st EXCEPT
        !.chats = AppendMessage(st.chats, captured,
                      Msg(errorId, "ai", Content("", <<>>, ErrorMessage(status, detail)),
                          errorId[2])),
        !.isLoading = FALSE]

\* mutant: the finally block is missing
SendSettledStillLoading(st) == [st EXCEPT !.selectedImage = NoImage]

\* setSelectedImage(null) ... finally setIsLoading(false)
SendSettled(st) == [st EXCEPT !.selectedImage = NoImage, !.isLoading = FALSE]

\* ------------------------------------------------------------ fetchChats / fetchMessages
\* mutant: setChats(fetchedChats) is missing
FetchChatsDoneNoList(st, captured, list) ==
    [st EXCEPT
        !.activeChat = IF Len(list) > 0 /\ captured = Null THEN list[1].id
                       ELSE IF Len(list) = 0 THEN Null
                       ELSE st.activeChat]

\* setChats(fetchedChats); if (fetchedChats.length > 0 && !activeChat) ...
\* activeChat here is the value the closure captured
FetchChatsDone(st, captured, list) ==
    [st EXCEPT
        !.chats = FetchedChats(list),
        !.activeChat = IF Len(list) > 0 /\ captured = Null THEN list[1].id
                       ELSE IF Len(list) = 0 THEN Null
                       ELSE st.activeChat]

\* mutant: the fetched messages are added to the local ones
FetchMessagesDoneMerged(st, chatId, msgs) ==
    [st EXCEPT !.chats = ReplaceMessages(st.chats, chatId,
                             MessagesOf(st.chats, chatId) \o msgs)]

FetchMessagesDone(st, chatId, msgs) ==
    [st EXCEPT !.chats = ReplaceMessages(st.chats, chatId, msgs)]

\* ------------------------------------------------------------ handleNewChat / handleDeleteChat
\* mutant: a new chat is created locally at once
handleNewChatLocal(st) ==
    [st EXCEPT !.chats = <<[id |-> 100 + Len(st.chats), messages |-> <<>>,
                             lastUpdated |-> 0]>> \o st.chats,
               !.activeChat = 100 + Len(st.chats),
               !.selectedImage = NoImage]

handleNewChat(st) ==
    [st EXCEPT !.activeChat = Null, !.selectedImage = NoImage, !.inputValue = <<>>]

\* mutant: new-chat mode whichever chat was deleted
DeleteDoneAlwaysNew(st, captured, chatId) ==
    [st EXCEPT !.chats = RemoveChat(st.chats, chatId), !.activeChat = Null,
               !.selectedImage = NoImage, !.inputValue = <<>>]

\* mutant: the deleted chat is compared with the activeChat of the moment
DeleteDoneCurrent(st, captured, chatId) ==
    [st EXCEPT !.chats = RemoveChat(st.chats, chatId),
               !.activeChat = IF st.activeChat = chatId THEN Null ELSE st.activeChat,
               !.selectedImage = IF st.activeChat = chatId THEN NoImage
                                 ELSE st.selectedImage,
               !.inputValue = IF st.activeChat = chatId THEN <<>> ELSE st.inputValue]

\* after the DELETE succeeded; activeChat is the captured value
DeleteDone(st, captured, chatId) ==
    LET removed == [st EXCEPT !.chats = RemoveChat(st.chats, chatId)]
    IN  IF captured = chatId THEN handleNewChat(removed) ELSE removed

\* ------------------------------------------------------------ ChatMessage
\* no bubble is drawn
NoChatMessage ==
    [message |-> [type |-> "", content |-> <<>>], elements |-> <<>>, drawn |-> FALSE]

\* the character U+2022
BulletChar == "&bull;"

\* lines an answer may consist of: headings, bullets, numbered items (a blank
\* or a tab after the dot), bold lines, text with inline bold, plain text,
\* near misses of each, an empty and a blank line
ContentLines ==
    {<<"#", " ", "T">>,
     <<"#", "#", " ", "T">>,
     <<"#", "#", "#", " ", "T">>,
     <<"#", "T">>,
     <<" ", "#", " ", "T", " ">>,
     <<"-", " ", "a">>,
     <<BulletChar, " ", "a">>,
     <<"-", "a">>,
     <<"-", " ", "*", "*", "a", "*", "*">>,
     <<"1", ".", " ", "a">>,
     <<"1", "2", ".", " ", "a">>,
     <<"1", ".", "\t", "a">>,
     <<"1", ".", "a">>,
     <<"*", "*", "a", "*", "*">>,
     <<"*", "*">>,
     <<"*", "*", "a">>,
     <<"a", " ", "*", "*", "b", "*", "*", " ", "c">>,
     <<"a">>,
     <<>>,
     <<" ">>}

NewLine == <<"\n">>
\* message.content: one line, two lines, or two lines with an empty one between
Contents ==
    ContentLines
        \cup {a \o NewLine \o b : a \in ContentLines, b \in ContentLines}
        \cup {<<"#", " ", "T">> \o NewLine \o NewLine \o b : b \in ContentLines}

\* content.split('\n')
RECURSIVE Split(_)
Split(s) ==
    IF \E i \in 1..Len(s) : s[i] = "\n"
    THEN LET i == CHOOSE k \in 1..Len(s) :
                      s[k] = "\n" /\ \A j \in 1..(k - 1) : s[j] # "\n"
         IN  <<SubSeq(s, 1, i - 1)>> \o Split(SubSeq(s, i + 1, Len(s)))
    ELSE <<s>>

\* s.substring(n); s.slice(2, -2); s.endsWith(suffix)
Substring(s, n) == SubSeq(s, n + 1, Len(s))
SliceBold(s) == SubSeq(s, 3, Len(s) - 2)
EndsWith(s, suffix) ==
    Len(s) >= Len(suffix) /\ SubSeq(s, Len(s) - Len(suffix) + 1, Len(s)) = suffix

\* \d
Digits == {"0", "1", "2", "3", "4", "5", "6", "7", "8", "9"}
\* the length of the match of ^\d+ (0: no match)
RECURSIVE LeadingDigits(_)
LeadingDigits(s) ==
    IF s # <<>> /\ Head(s) \in Digits THEN 1 + LeadingDigits(Tail(s)) ELSE 0

\* mutant: the dot must be followed by a blank
IsNumberedBlank(t) ==
    LET n == LeadingDigits(t)
    IN  n >= 1 /\ Len(t) >= n + 2 /\ t[n + 1] = "." /\ t[n + 2] = " "

\* /^\d+\.\s/.test(trimmedLine)
IsNumbered(t) ==
    LET n == LeadingDigits(t)
    IN  n >= 1 /\ Len(t) >= n + 2 /\ t[n + 1] = "." /\ t[n + 2] \in Whitespace

\* a match of \*\*[^*]+\*\* that starts at i ends at BoldEnd(s, i)
BoldEnd(s, i) ==
    IF i + 1 <= Len(s) /\ s[i] = "*" /\ s[i + 1] = "*"
          /\ \E j \in (i + 3)..(Len(s) - 1) :
                /\ s[j] = "*" /\ s[j + 1] = "*"
                /\ \A k \in (i + 2)..(j - 1) : s[k] # "*"
    THEN 1 + CHOOSE j \in (i + 3)..(Len(s) - 1) :
                /\ s[j] = "*" /\ s[j + 1] = "*"
                /\ \A k \in (i + 2)..(j - 1) : s[k] # "*"
    ELSE 0

\* trimmedLine.split(/(\*\*[^*]+\*\*)/g)
RECURSIVE SplitBold(_)
SplitBold(s) ==
    IF \E i \in 1..Len(s) : BoldEnd(s, i) > 0
    THEN LET i == CHOOSE k \in 1..Len(s) :
                      BoldEnd(s, k) > 0 /\ \A j \in 1..(k - 1) : BoldEnd(s, j) = 0
             e == BoldEnd(s, i)
         IN  <<SubSeq(s, 1, i - 1), SubSeq(s, i, e)>>
                 \o SplitBold(SubSeq(s, e + 1, Len(s)))
    ELSE <<s>>

Stars == <<"*", "*">>
\* parts.map(part => part.startsWith('**') && part.endsWith('**') ? <strong> : part)
FormattedParts(t) ==
    LET parts == SplitBold(t)
    IN  [i \in 1..Len(parts) |->
            IF StartsWith(parts[i], Stars) /\ EndsWith(parts[i], Stars)
            THEN [strong |-> TRUE, text |-> SliceBold(parts[i])]
            ELSE [strong |-> FALSE, text |-> parts[i]]]

\* one JSX element: its tag, the number of a numbered item, its text or parts
Element(tag, number, text, parts) ==
    [tag |-> tag, number |-> number, text |-> text, parts |-> parts]

\* the body of lines.forEach((line, index) => ...): what one line pushes;
\* index counts from 0
LineElements(line, index, length) ==
    LET t == Trim(line)
    IN  IF StartsWith(t, <<"#", " ">>)
        THEN <<Element("h1", <<>>, Substring(t, 2), <<>>)>>
        ELSE IF StartsWith(t, <<"#", "#", " ">>)
        THEN <<Element("h2", <<>>, Substring(t, 3), <<>>)>>
        ELSE IF StartsWith(t, <<"#", "#", "#", " ">>)
        THEN <<Element("h3", <<>>, Substring(t, 4), <<>>)>>
        ELSE IF StartsWith(t, <<BulletChar, " ">>) \/ StartsWith(t, <<"-", " ">>)
        THEN <<Element("bullet", <<>>, Substring(t, 2), <<>>)>>
        ELSE IF IsNumbered(t)
        THEN (LET n == LeadingDigits(t)
              IN  IF Len(t) >= n + 3      \* match(/^(\d+)\.\s(.+)$/)
                  THEN <<Element("numbered", SubSeq(t, 1, n), Substring(t, n + 2),
                                 <<>>)>>
                  ELSE <<>>)
        ELSE IF StartsWith(t, Stars) /\ EndsWith(t, Stars)
        THEN <<Element("bold", <<>>, SliceBold(t), <<>>)>>
        ELSE IF Len(t) > 0
        THEN <<Element("p", <<>>, <<>>, FormattedParts(t))>>
        ELSE IF index > 0 /\ index < length - 1
        THEN <<Element("spacer", <<>>, <<>>, <<>>)>>
        ELSE <<>>

RECURSIVE RenderFrom(_, _)
RenderFrom(lines, index) ==
    IF index >= Len(lines) THEN <<>>
    ELSE LineElements(lines[index + 1], index, Len(lines))
             \o RenderFrom(lines, index + 1)

renderContent(content) == RenderFrom(Split(content), 0)

\* what the component draws in its bubble: the raw text of a user message,
\* the formatted elements of an AI message
Bubble(message) ==
    IF message.type = "user"
    THEN <<Element("raw", <<>>, message.content, <<>>)>>
    ELSE renderContent(message.content)

\* ------------------------------------------------------------ SignUpPage
\* no signup(...) call is awaited
NoCall == [name |-> <<>>, email |-> <<>>, password |-> <<>>, awaited |-> FALSE]

\* const newErrors = {}: a key that is absent reads as ""
NoErrors ==
    [fullName |-> "", email |-> "", password |-> "", confirmPassword |-> "",
     general |-> ""]

\* useState({fullName: "", email: "", password: "", confirmPassword: ""}),
\* useState({}), useState(false); call: the signup(...) call being awaited;
\* route: where the router is; step: the handler that ran last
SignUpPage ==
    [formData |-> [fullName |-> <<>>, email |-> <<>>, password |-> <<>>,
                   confirmPassword |-> <<>>],
     errors |-> NoErrors,
     isLoading |-> FALSE,
     call |-> NoCall,
     route |-> "/signup",
     step |-> "render"]

\* ------------------------------------------------------------ initial state
\* The conversations the backend holds when the dashboard is opened
Seeded(id) ==
    [id |-> id,
     messages |-> <<Msg(ServerMsgId(id, 1), "user", Content("", <<"a">>, ""), 0),
                    Msg(ServerMsgId(id, 2), "ai", AiAnswer, 0)>>,
     updated_at |-> 0]
InitialServerChats == {<<>>, <<Seeded(2), Seeded(1)>>}

\* The first render: empty state, and the mount effect has called fetchChats()
Mounted ==
    /\ chats = <<>>
    /\ activeChat = Null
    /\ isLoading = FALSE
    /\ inputValue = <<>>
    /\ selectedImage = NoImage
    /\ send = IdleSend
    /\ fetches = {Fetch("chats", Null, Null, FALSE, FALSE, 0)}
    /\ deletes = {}
    /\ serverChats \in InitialServerChats
    /\ nextChatId = Len(serverChats) + 1
    /\ nSends = 0
    /\ nEvents = 0
    /\ ev = Event("mount", Null, Null, TRUE)

Init ==
    /\ Mounted
    /\ chatMessage = NoChatMessage
    /\ signUpPage = SignUpPage

\* ------------------------------------------------------------ user events
UserEvent == nEvents < MaxUserEvents /\ nEvents' = nEvents + 1 /\ UNCHANGED pages

\* InputBar textarea: onChange={(e) => onChange(e.target.value)}, disabled={disabled}
TypeInput(v) ==
    /\ UserEvent
    /\ ~isLoading
    /\ v # inputValue
    /\ inputValue' = v
    /\ ev' = Event("input", Null, Null, TRUE)
    /\ UNCHANGED <<chats, activeChat, isLoading, selectedImage, send, fetches,
                   deletes, server, nSends>>

\* InputBar.handleFileSelect passed its checks and called onImageUpload(file),
\* which is handleImageUpload(file); the attach button is disabled while loading
ImageUpload(file) ==
    /\ UserEvent
    /\ ~isLoading
    /\ FileAccepted(file)
    /\ selectedImage' = file
    /\ selectedImage' # selectedImage
    /\ ev' = [Event("fileSelect", Null, Null, TRUE) EXCEPT !.file = file]
    /\ UNCHANGED <<chats, activeChat, isLoading, inputValue, send, fetches,
                   deletes, server, nSends>>

\* InputBar.handleFileSelect returned after an alert
FileRejected(file) ==
    /\ UserEvent
    /\ ~isLoading
    /\ ~FileAccepted(file)
    /\ ev' = [Event("fileSelect", Null, Null, FALSE)
                 EXCEPT !.file = file, !.alert = FileAlert(file)]
    /\ UNCHANGED <<client, send, fetches, deletes, server, nSends>>

FileSelect(file) == ImageUpload(file) \/ FileRejected(file)

\* handleClearImage(): the button exists while an image is selected
ClearImage ==
    /\ UserEvent
    /\ ~isLoading
    /\ selectedImage # NoImage
    /\ selectedImage' = NoImage
    /\ ev' = Event("input", Null, Null, TRUE)
    /\ UNCHANGED <<chats, activeChat, isLoading, inputValue, send, fetches,
                   deletes, server, nSends>>

\* Sidebar: onChatSelect={setActiveChat}
SelectChat(id) ==
    /\ UserEvent
    /\ id \in Ids(chats)
    /\ id # activeChat
    /\ Commit([Client EXCEPT !.activeChat = id], fetches)
    /\ ev' = Event("selectChat", id, activeChat, TRUE)
    /\ UNCHANGED <<send, deletes, server, nSends>>

\* Sidebar: onNewChat={handleNewChat}
NewChat ==
    /\ UserEvent
    /\ Commit(handleNewChat(Client), fetches)
    /\ ev' = Event("newChat", Null, activeChat, TRUE)
    /\ UNCHANGED <<send, deletes, server, nSends>>

\* Sidebar: onDeleteChat={handleDeleteChat}, up to await api.delete(...)
DeleteChat(id) ==
    /\ UserEvent
    /\ id \in Ids(chats)
    /\ deletes' = Add(deletes, Delete(id, activeChat))
    /\ ev' = Event("deleteChat", id, activeChat, TRUE)
    /\ UNCHANGED <<client, send, fetches, server, nSends>>

\* handleSendMessage(message) when its guard returns at once
SendIgnored(message) ==
    /\ UserEvent
    /\ SendRejected(message, selectedImage, isLoading)
    /\ ev' = [Event("sendMessage", Null, activeChat, FALSE) EXCEPT !.text = message]
    /\ UNCHANGED <<client, send, fetches, deletes, server, nSends>>

\* handleSendMessage(message), up to the await of the POST
SendAccepted(message) ==
    /\ UserEvent
    /\ ~SendRejected(message, selectedImage, isLoading)
    /\ nSends < MaxSends
    /\ nSends' = nSends + 1
    /\ Commit(OptimisticUpdate(Client, message, TempId(Now(nSends'))), fetches)
    /\ send' = PostRequest(Client, message)
    /\ ev' = [Event("sendMessage", Null, activeChat, TRUE) EXCEPT !.text = message]
    /\ UNCHANGED <<deletes, server>>

SendMessage(message) == SendIgnored(message) \/ SendAccepted(message)

\* InputBar.handleSubmit: if ((value.trim() || selectedImage) && !disabled) onSend(value.trim())
HandleSubmit ==
    /\ (Trim(inputValue) # <<>> \/ selectedImage # NoImage) /\ ~isLoading
    /\ SendAccepted(Trim(inputValue))

\* ------------------------------------------------------------ responses
\* A request stays in flight until its answer reaches the handler that awaits
\* it; the backend serves it at that moment.  A request that fails (no
\* connection, a 4xx or 5xx answer) changes nothing on the backend.

\* GET /api/chats
ChatList ==
    [i \in 1..Len(serverChats) |->
        [id |-> serverChats[i].id, updated_at |-> serverChats[i].updated_at]]

\* fetchChats() after await api.get("/api/chats"); when handleSendMessage awaits
\* it (a send in new-chat mode), the handler goes on in the same tick:
\* setActiveChat(response.data.chat_id); setSelectedImage(null); setIsLoading(false)
FetchChatsSettled(r, ok) ==
    /\ LET fetched == IF ok THEN FetchChatsDone(Client, r.activeChat, ChatList)
                      ELSE Client
       IN  IF r.awaited
           THEN /\ Commit(SendSettled([fetched EXCEPT !.activeChat = send.chat_id]),
                          fetches \ {r})
                /\ send' = IdleSend
           ELSE /\ Commit(fetched, fetches \ {r})
                /\ UNCHANGED send
    /\ ev' = IF r.awaited
             THEN [Event("sendDone", Null, r.activeChat, ok) EXCEPT !.call = send]
             ELSE [Event("fetchChats", Null, r.activeChat, ok)
                      EXCEPT !.quiet = r.refetched /\ r.at = nEvents]
    /\ UNCHANGED <<deletes, server, nSends, nEvents, pages>>

FetchChatsResponse(r) ==
    /\ r \in fetches /\ r.kind = "chats"
    /\ FetchChatsSettled(r, TRUE)

\* catch (error) { console.error("Failed to fetch chats:", error) }
FetchChatsError(r) ==
    /\ r \in fetches /\ r.kind = "chats"
    /\ FetchChatsSettled(r, FALSE)

\* fetchMessages(chatId) after its await; when handleSendMessage awaits it (a
\* send in an existing chat), the handler goes on in the same tick:
\* fetchChats(); setSelectedImage(null); setIsLoading(false)
FetchMessagesSettled(r, ok) ==
    /\ LET fetched == IF ok
                      THEN FetchMessagesDone(Client, r.chatId, ServerMessages(r.chatId))
                      ELSE Client
       IN  IF r.awaited
           THEN /\ Commit(SendSettled(fetched),
                          Add(fetches \ {r}, Fetch("chats", Null, send.activeChat, FALSE, ok, send.at)))
                /\ send' = IdleSend
           ELSE /\ Commit(fetched, fetches \ {r})
                /\ UNCHANGED send
    /\ ev' = IF r.awaited
             THEN [Event("sendDone", r.chatId, r.activeChat, ok) EXCEPT !.call = send]
             ELSE Event("fetchMessages", r.chatId, r.activeChat, ok)
    /\ UNCHANGED <<deletes, server, nSends, nEvents, pages>>

\* GET /api/chats/{id}/messages of a chat the backend holds
FetchMessagesResponse(r) ==
    /\ r \in fetches /\ r.kind = "messages"
    /\ ServerHas(r.chatId)
    /\ FetchMessagesSettled(r, TRUE)

\* mutant: the failed request is issued again
FetchMessagesErrorRetry(r) ==
    /\ r \in fetches /\ r.kind = "messages"
    /\ fetches' = (fetches \ {r}) \cup {[r EXCEPT !.n = r.n + 1]}
    /\ ev' = Event("fetchMessages", r.chatId, r.activeChat, FALSE)
    /\ UNCHANGED <<client, send, deletes, server, nSends, nEvents, pages>>

\* catch (error) { console.error("Failed to fetch messages:", error) }
FetchMessagesError(r) ==
    /\ r \in fetches /\ r.kind = "messages"
    /\ FetchMessagesSettled(r, FALSE)

\* handleSendMessage after the POST resolved: the refetch it awaits
PostSucceeded ==
    /\ send.stage = "post"
    /\ send.activeChat = Null \/ ServerHas(send.activeChat)
    /\ LET done == ServerPost(serverChats, nextChatId,
                              RequestChatId(send.endpoint, send.activeChat),
                              UserContent(send.selectedImage, send.message),
                              ServerTime(Now(nSends)))
       IN  /\ serverChats' = done.chats
           /\ nextChatId' = done.next
           /\ IF send.activeChat # Null
              THEN /\ send' = [send EXCEPT !.stage = "fetchMessages",
                                           !.chat_id = done.chat_id]
                   /\ Commit(Client, Add(fetches, Fetch("messages", send.activeChat,
                                                        send.activeChat, TRUE, FALSE, 0)))
              ELSE /\ send' = [send EXCEPT !.stage = "fetchChats",
                                           !.chat_id = done.chat_id]
                   /\ Commit(Client, Add(fetches, Fetch("chats", Null, send.activeChat,
                                                        TRUE, FALSE, 0)))
           /\ ev' = Event("postResponse", done.chat_id, send.activeChat, TRUE)
    /\ UNCHANGED <<deletes, nSends, nEvents, pages>>

\* handleSendMessage after the POST rejected: catch, then finally
PostFailed(status, detail) ==
    /\ send.stage = "post"
    /\ status = 0 => detail = ""
    /\ Commit(SendFailed(Client, send.activeChat, status, detail,
                         ErrorId(Now(nSends))), fetches)
    /\ send' = IdleSend
    /\ ev' = [Event("sendFailed", status, send.activeChat, FALSE)
                 EXCEPT !.call = send, !.detail = detail]
    /\ UNCHANGED <<deletes, server, nSends, nEvents, pages>>

\* handleDeleteChat after await api.delete(...) resolved
DeleteResponse(d) ==
    /\ d \in deletes
    /\ ServerHas(d.chatId)
    /\ deletes' = deletes \ {d}
    /\ serverChats' = RemoveChat(serverChats, d.chatId)
    /\ send' = IF send.stage = "idle" THEN send ELSE [send EXCEPT !.deleted = TRUE]
    /\ Commit(DeleteDone(Client, d.activeChat, d.chatId), fetches)
    /\ ev' = Event("deleteResponse", d.chatId, d.activeChat, TRUE)
    /\ UNCHANGED <<nextChatId, nSends, nEvents, pages>>

\* mutant: the chat is removed from the list although the DELETE failed
DeleteErrorRemoves(d) ==
    /\ d \in deletes
    /\ deletes' = deletes \ {d}
    /\ Commit([Client EXCEPT !.chats = RemoveChat(chats, d.chatId)], fetches)
    /\ ev' = [Event("deleteResponse", d.chatId, d.activeChat, FALSE)
                 EXCEPT !.alert = "Failed to delete chat. Please try again."]
    /\ UNCHANGED <<send, server, nSends, nEvents, pages>>

\* catch (error) { console.error(...); alert("Failed to delete chat. ...") }
DeleteError(d) ==
    /\ d \in deletes
    /\ deletes' = deletes \ {d}
    /\ Commit(Client, fetches)
    /\ ev' = [Event("deleteResponse", d.chatId, d.activeChat, FALSE)
                 EXCEPT !.alert = "Failed to delete chat. Please try again."]
    /\ UNCHANGED <<send, server, nSends, nEvents, pages>>

\* ------------------------------------------------------------ specification
Next ==
    \/ \E v \in Texts : TypeInput(v)
    \/ \E file \in Files : FileSelect(file)
    \/ ClearImage
    \/ \E id \in Ids(chats) : SelectChat(id)
    \/ NewChat
    \/ \E id \in Ids(chats) : DeleteChat(id)
    \/ \E message \in Texts : SendMessage(message)
    \/ HandleSubmit
    \/ \E r \in fetches : FetchChatsResponse(r)
    \/ \E r \in fetches : FetchChatsError(r)
    \/ \E r \in fetches : FetchMessagesResponse(r)
    \/ \E r \in fetches : FetchMessagesError(r)
    \/ PostSucceeded
    \/ \E status \in ErrorStatuses, detail \in Details : PostFailed(status, detail)
    \/ \E d \in deletes : DeleteResponse(d)
    \/ \E d \in deletes : DeleteError(d)

Spec == Init /\ [][Next]_vars

\* ------------------------------------------------------------ ChatMessage on its own
\* A ChatMessage is given a message and draws it.
ChatMessageInit ==
    /\ Mounted
    /\ serverChats = <<>>
    /\ signUpPage = SignUpPage
    /\ chatMessage \in
          {[message |-> [type |-> t, content |-> c], elements |-> <<>>, drawn |-> FALSE] :
              t \in {"user", "ai"}, c \in Contents}

ChatMessage ==
    /\ ~chatMessage.drawn
    /\ chatMessage' = [chatMessage EXCEPT !.elements = Bubble(chatMessage.message),
                                          !.drawn = TRUE]
    /\ UNCHANGED <<dashboard, signUpPage>>

ChatMessageNext == ChatMessage

ChatMessageSpec == ChatMessageInit /\ [][ChatMessageNext]_vars

\* ------------------------------------------------------------ SignUpPage on its own
\* what can be typed into the four inputs
FullNames == {<<>>, <<" ">>, <<"a">>, <<" ", "a", " ">>, <<"a", "b">>}

Emails ==
    {<<>>, <<"a">>, <<"a", "@", "b">>, <<"a", "@", "b", ".", "c">>,
     <<"@", "b", ".", "c">>, <<"a", "@", ".", "c">>, <<"a", "@", "b", ".">>,
     <<"x", " ", "a", "@", "b", ".", "c">>}

Passwords ==
    {<<>>, <<" ", " ", " ", " ", " ", " ">>, <<"a", "b", "c", "d", "e">>,
     <<"a", "b", "c", "d", "e", "f">>, <<"a", "b", "c", "d", "e", " ">>}

FieldValues ==
    [fullName |-> FullNames, email |-> Emails, password |-> Passwords,
     confirmPassword |-> Passwords]

\* /\S+@\S+\.\S+/.test(s): somewhere in s, a non-space character before an
\* "@", then one or more non-space characters, a "." and a non-space character
EmailTest(s) ==
    \E i \in 2..Len(s), j \in 1..(Len(s) - 1) :
        /\ s[i] = "@"
        /\ s[i - 1] \notin Whitespace
        /\ j >= i + 2
        /\ \A k \in (i + 1)..(j - 1) : s[k] \notin Whitespace
        /\ s[j] = "."
        /\ s[j + 1] \notin Whitespace

\* validateForm with the length test of the full name left out
validateFormAnyName(formData) ==
    [fullName |->
        IF Trim(formData.fullName) = <<>> THEN "Full name is required" ELSE "",
     email |->
        IF Trim(formData.email) = <<>> THEN "Email is required"
        ELSE IF ~EmailTest(formData.email) THEN "Please enter a valid email address"
        ELSE "",
     password |->
        IF Trim(formData.password) = <<>> THEN "Password is required"
        ELSE IF Len(formData.password) < 6 THEN "Password must be at least 6 characters"
        ELSE "",
     confirmPassword |->
        IF Trim(formData.confirmPassword) = <<>> THEN "Please confirm your password"
        ELSE IF formData.password # formData.confirmPassword THEN "Passwords do not match"
        ELSE "",
     general |-> ""]

\* validateForm: the newErrors it builds
validateForm(formData) ==
    [fullName |->
        IF Trim(formData.fullName) = <<>> THEN "Full name is required"
        ELSE IF Len(Trim(formData.fullName)) < 2
             THEN "Full name must be at least 2 characters"
        ELSE "",
     email |->
        IF Trim(formData.email) = <<>> THEN "Email is required"
        ELSE IF ~EmailTest(formData.email) THEN "Please enter a valid email address"
        ELSE "",
     password |->
        IF Trim(formData.password) = <<>> THEN "Password is required"
        ELSE IF Len(formData.password) < 6 THEN "Password must be at least 6 characters"
        ELSE "",
     confirmPassword |->
        IF Trim(formData.confirmPassword) = <<>> THEN "Please confirm your password"
        ELSE IF formData.password # formData.confirmPassword THEN "Passwords do not match"
        ELSE "",
     general |-> ""]

\* const isFormValid = ...: every field has something other than blanks in it
isFormValid(formData) ==
    /\ Trim(formData.fullName) # <<>>
    /\ Trim(formData.email) # <<>>
    /\ Trim(formData.password) # <<>>
    /\ Trim(formData.confirmPassword) # <<>>

\* what the awaited signup(...) can come back with: success, a failure with or
\* without a message of its own, or a rejected promise
SignupResults ==
    {[success |-> TRUE, error |-> "", thrown |-> FALSE],
     [success |-> FALSE, error |-> "", thrown |-> FALSE],
     [success |-> FALSE, error |-> "Email already registered", thrown |-> FALSE],
     [success |-> FALSE, error |-> "", thrown |-> TRUE]}

SignUpInit ==
    /\ Mounted
    /\ serverChats = <<>>
    /\ chatMessage = NoChatMessage
    /\ signUpPage = SignUpPage

\* onChange of an input; the inputs are disabled while isLoading
handleInputChange(name, value) ==
    /\ signUpPage.route = "/signup"
    /\ ~signUpPage.isLoading
    /\ value # signUpPage.formData[name]
    /\ signUpPage' =
          [signUpPage EXCEPT
              !.formData[name] = value,
              !.errors[name] = "",
              !.step = "handleInputChange"]
    /\ UNCHANGED <<dashboard, chatMessage>>

\* onSubmit of the form, up to the await; the submit button is disabled
\* unless isFormValid and not isLoading
handleSubmit ==
    /\ signUpPage.route = "/signup"
    /\ ~signUpPage.isLoading
    /\ isFormValid(signUpPage.formData)
    /\ LET newErrors == validateForm(signUpPage.formData)
       IN  signUpPage' =
              IF newErrors = NoErrors
              THEN [signUpPage EXCEPT
                       !.errors = newErrors,
                       !.isLoading = TRUE,
                       !.call = [name |-> signUpPage.formData.fullName,
                                 email |-> signUpPage.formData.email,
                                 password |-> signUpPage.formData.password,
                                 awaited |-> TRUE],
                       !.step = "handleSubmit"]
              ELSE [signUpPage EXCEPT
                       !.errors = newErrors,
                       !.step = "handleSubmit"]
    /\ UNCHANGED <<dashboard, chatMessage>>

\* handleSubmit after the await: the result, the catch and the finally
SignupSettled(result) ==
    /\ signUpPage.call.awaited
    /\ signUpPage' =
          [signUpPage EXCEPT
              !.route = IF ~result.thrown /\ result.success
                        THEN "/dashboard" ELSE @,
              !.errors =
                  IF result.thrown
                  THEN [NoErrors EXCEPT
                           !.general = "An unexpected error occurred. Please try again."]
                  ELSE IF result.success THEN @
                  ELSE [NoErrors EXCEPT
                           !.general =
                               IF result.error # "" THEN result.error
                               ELSE "Account creation failed. Please try again."],
              !.isLoading = FALSE,
              !.call = NoCall,
              !.step = "SignupSettled"]
    /\ UNCHANGED <<dashboard, chatMessage>>

SignUpNext ==
    \/ \E name \in DOMAIN FieldValues :
          \E value \in FieldValues[name] : handleInputChange(name, value)
    \/ handleSubmit
    \/ \E result \in SignupResults : SignupSettled(result)

SignUpSpec == SignUpInit /\ [][SignUpNext]_vars

\* Every request that was issued is answered at some time: the HTTP client
\* settles each promise, and the handler awaiting it then runs.
Responses ==
    \/ \E r \in fetches : FetchChatsResponse(r)
    \/ \E r \in fetches : FetchChatsError(r)
    \/ \E r \in fetches : FetchMessagesResponse(r)
    \/ \E r \in fetches : FetchMessagesError(r)
    \/ PostSucceeded
    \/ \E status \in ErrorStatuses, detail \in Details : PostFailed(status, detail)
    \/ \E d \in deletes : DeleteResponse(d)
    \/ \E d \in deletes : DeleteError(d)

FairSpec == Spec /\ WF_vars(Responses)

\* ------------------------------------------------------------ properties
AllMessages == UNION {SeqToSet(chats[i].messages) : i \in 1..Len(chats)}
Requests == <<send, fetches, deletes>>

\* C1: sendMessage(text) is a no-op whenever (text is empty after trimming and
\* no image is selected) or isLoading is true: chats, activeChat, inputValue,
\* selectedImage and isLoading are unchanged and no request is issued.
C1_SendNoOp ==
    [][(/\ ev'.op = "sendMessage"
        /\ \/ Trim(ev'.text) = <<>> /\ selectedImage = NoImage
           \/ isLoading)
       => UNCHANGED <<client, Requests, server>>]_vars

\* a send of a real question was ignored because a request was in flight
C1_Witness ==
    ev.op = "sendMessage" /\ ~ev.ok /\ Trim(ev.text) # <<>> /\ isLoading

\* C2: after every accepted sendMessage, whatever activeChat is, the
\* conversation on screen ends with a user message carrying the sent content,
\* inputValue is empty and isLoading is true.
C2_OptimisticShown ==
    (ev.op = "sendMessage" /\ ev.ok) =>
        LET shown == CurrentMessages(chats, activeChat)
        IN  /\ shown # <<>>
            /\ shown[Len(shown)].type = "user"
            /\ shown[Len(shown)].content = UserContent(send.selectedImage, send.message)
            /\ inputValue = <<>>
            /\ isLoading

\* C3: when the POST of an accepted send fails, then once the send has
\* completed the conversation it was sent in holds the optimistic user message
\* of that send and exactly one AI-authored error message of that send, placed
\* after it, for every value of activeChat and every interleaving.
C3_ErrorAfterOptimistic ==
    ev.op = "sendFailed" =>
        LET ms == MessagesOf(chats, ev.active)
            users == {i \in 1..Len(ms) :
                        ms[i].id = TempId(Now(nSends)) /\ ms[i].type = "user"}
            errors == {j \in 1..Len(ms) :
                        ms[j].id = ErrorId(Now(nSends)) /\ ms[j].type = "ai"}
        IN  /\ Cardinality(users) = 1
            /\ Cardinality(errors) = 1
            /\ \A i \in users, j \in errors : i < j

\* C4: after a send in an existing chat whose POST, fetchMessages and
\* fetchChats all succeeded, with no user event since the send and no request
\* left in flight, the local message list of that chat equals the backend's
\* list for that chat.
C4_LocalEqualsServer ==
    (/\ ev.op = "fetchChats" /\ ev.ok /\ ev.quiet /\ ev.active # Null
     /\ fetches = {} /\ deletes = {} /\ send = IdleSend) =>
        MessagesOf(chats, ev.active) = ServerMessages(ev.active)

C7_DeleteActiveAlwaysNull ==
    [][(ev'.op = "deleteResponse" /\ ev'.active = ev'.id) => activeChat' = Null]_vars

\* C7 as amended: once deleteChat(id) of the chat that was active has
\* completed, activeChat is null if the request succeeded, whatever chat was
\* selected meanwhile, and is what it was if the request failed.
C7_DeleteActiveNullOnSuccess ==
    [][(ev'.op = "deleteResponse" /\ ev'.active = ev'.id) =>
          IF ev'.ok THEN activeChat' = Null ELSE activeChat' = activeChat]_vars

\* the active chat was deleted while the user had moved to another chat
C7_Witness ==
    /\ ev.op = "deleteResponse" /\ ev.ok /\ ev.active = ev.id
    /\ activeChat = Null /\ Len(chats) > 0

\* C8: after a successful deleteChat(id), chats holds no chat with that id,
\* every other chat is still there in the same order with the same messages,
\* and if id was not the active chat then activeChat, selectedImage and
\* inputValue are unchanged.
C8_DeleteRemovesOnlyThatChat ==
    [][(ev'.op = "deleteResponse" /\ ev'.ok) =>
          /\ ev'.id \notin Ids(chats')
          /\ chats' = SelectSeq(chats, LAMBDA c : c.id # ev'.id)
          /\ ev'.active # ev'.id =>
                UNCHANGED <<activeChat, selectedImage, inputValue>>]_vars

\* a chat other than the active one was deleted; the active one is still shown
C8_Witness ==
    /\ ev.op = "deleteResponse" /\ ev.ok /\ ev.active # ev.id
    /\ activeChat # Null /\ activeChat \in Ids(chats)

\* C9: newChat() sets activeChat to null, selectedImage to null and inputValue
\* to the empty string, leaves chats and isLoading unchanged and issues no
\* request: no chat is created locally or on the backend.
C9_NewChatClears ==
    [][ev'.op = "newChat" =>
          /\ activeChat' = Null
          /\ selectedImage' = NoImage
          /\ inputValue' = <<>>
          /\ UNCHANGED <<chats, isLoading, Requests, server>>]_vars

\* newChat() was called with a chat open, while a send was in flight
C9_Witness ==
    ev.op = "newChat" /\ ev.active # Null /\ isLoading /\ Len(chats) > 0

\* C10: when a fetchChats response is processed, chats becomes the backend's
\* list in its order; if no chat is active at that moment and the list is not
\* empty, activeChat becomes its first chat; if the list is empty, activeChat
\* becomes null; otherwise activeChat is unchanged.
C10_FetchChatsSelects ==
    [][(ev'.op = "fetchChats" /\ ev'.ok) =>
          /\ chats' = [i \in 1..Len(serverChats) |->
                          [id |-> serverChats[i].id, messages |-> <<>>,
                           lastUpdated |-> serverChats[i].updated_at]]
          /\ activeChat' = IF activeChat = Null /\ Len(serverChats) > 0
                           THEN serverChats[1].id
                           ELSE IF Len(serverChats) = 0 THEN Null
                           ELSE activeChat]_vars

\* C11: a successful fetchMessages(chatId) of a chat present in chats leaves
\* that chat with exactly the messages of the backend's list, in the backend's
\* order, and when that chat is the active one the render draws exactly one
\* bubble per message of the list, in that order.
C11_FetchMessagesThenRender ==
    [][(/\ ev'.op \in {"fetchMessages", "sendDone"} /\ ev'.ok
        /\ ev'.id # Null /\ ev'.id \in Ids(chats)) =>
          LET list == ServerMessages(ev'.id)
              bubbles == RenderMessages(chats', activeChat')
          IN  /\ MessagesOf(chats', ev'.id) = list
              /\ activeChat' = ev'.id =>
                    /\ Len(bubbles) = Len(list)
                    /\ \A i \in 1..Len(list) :
                          bubbles[i].key = list[i].id /\ bubbles[i].message = list[i]]_vars

\* the messages of the active chat were fetched and are drawn
C11_Witness ==
    /\ ev.op = "fetchMessages" /\ ev.ok /\ activeChat = ev.id
    /\ Len(RenderMessages(chats, activeChat)) >= 2
    /\ Len(RenderMessages(chats, activeChat)) = Len(ServerMessages(activeChat))

\* requests in flight
PostsInFlight == IF send.stage = "post" THEN 1 ELSE 0
MutationsInFlight == PostsInFlight + Cardinality(deletes)
RequestsInFlight == MutationsInFlight + Cardinality(fetches)
\* the steps in which a request fails
IsFailure(e) ==
    /\ ~e.ok
    /\ e.op \in {"sendFailed", "sendDone", "fetchChats", "fetchMessages", "deleteResponse"}

\* C12: in every reachable state at most one chat mutation request (POST
\* /api/query, POST /api/ocr or DELETE /api/chats/{id}) is in flight.
C12_OneMutationInFlight == MutationsInFlight <= 1

\* C13: in every reachable state at most one HTTP request of the chat-session
\* manager (fetchChats, fetchMessages, the POST of a send, a delete) is
\* outstanding.
C13_OneRequestOutstanding == RequestsInFlight <= 1

\* C14 as claimed: each accepted sendMessage issues exactly one POST, and the
\* step in which a request fails issues no request at all: a request is only
\* issued again after a new user event.
C14_NoRequestAfterFailure ==
    [][/\ (send'.stage = "post" /\ send.stage # "post") =>
              (ev'.op = "sendMessage" /\ ev'.ok)
       /\ IsFailure(ev') =>
              (fetches' \subseteq fetches /\ deletes' \subseteq deletes
                  /\ (ev'.op = "sendFailed" => send'.stage = "idle"))]_vars

\* C14 as amended: each accepted sendMessage issues exactly one POST, and the
\* step in which a request fails does not issue that request again (no POST,
\* no DELETE, no fetch of the kind and chat of the failed one); the refresh
\* that follows a failed fetch inside a send is still issued.
C14_NoRetry ==
    [][/\ (send'.stage = "post" /\ send.stage # "post") =>
              (ev'.op = "sendMessage" /\ ev'.ok /\ send.stage = "idle")
       /\ IsFailure(ev') =>
              /\ ev'.op = "sendFailed" => send'.stage = "idle"
              /\ deletes' \subseteq deletes
              /\ \A r \in fetches \ fetches', q \in fetches' \ fetches :
                    ~(q.kind = r.kind /\ q.chatId = r.chatId)]_vars

\* the fetchMessages a send awaited failed and the send went on to fetchChats
C14_Witness ==
    /\ ev.op = "sendDone" /\ ~ev.ok /\ ev.id # Null
    /\ \E q \in fetches : q.kind = "chats"

\* C15: every failed request of the chat-session manager (the POST of a send,
\* fetchChats, fetchMessages, deleteChat) is reported as a chat message added
\* to the conversation, and never through an alert.
C15_FailuresAsChatMessage ==
    [][IsFailure(ev') =>
          LET shown == CurrentMessages(chats', activeChat')
          IN  /\ ev'.alert = ""
              /\ shown # <<>>
              /\ shown[Len(shown)].type = "ai"
              /\ shown[Len(shown)] \notin AllMessages]_vars

\* C16: when a send fails with HTTP status 400, the content of the error
\* message added is the detail of the response when that detail is not empty,
\* and the fixed text "Please check your input." otherwise; a send made in a
\* chat of the list adds exactly one such message.
C16_ValidationDetail ==
    [][(ev'.op = "sendFailed" /\ ev'.id = 400) =>
          LET added == AllMessages' \ AllMessages
          IN  /\ \A m \in added :
                    /\ m.type = "ai"
                    /\ m.content.note = IF ev'.detail # "" THEN ev'.detail
                                        ELSE "Please check your input."
              /\ ev'.active \in Ids(chats) => Cardinality(added) = 1]_vars

\* a send in the active chat failed with a 400 that carried a detail
C16_Witness ==
    /\ ev.op = "sendFailed" /\ ev.id = 400 /\ ev.detail = "Question is required"
    /\ LET ms == MessagesOf(chats, ev.active)
       IN  ms # <<>> /\ ms[Len(ms)].content.note = "Question is required"

\* C17: when a send fails with HTTP status 401, the error message shown is
\* not the connectivity message shown when there was no response at all.
C17_SessionExpiredOn401 ==
    (ev.op = "sendFailed" /\ ev.id = 401 /\ ev.active \in Ids(chats)) =>
        LET ms == MessagesOf(chats, ev.active)
        IN  ms[Len(ms)].content.note # ErrorMessage(0, "")

\* C18: for a send that fails with any status other than 400, or with no
\* response, the content of the error message added is one fixed text,
\* whatever the body of the response.
C18_GenericMessage ==
    [][(ev'.op = "sendFailed" /\ ev'.id # 400) =>
          LET added == AllMessages' \ AllMessages
          IN  /\ \A m \in added :
                    m.content.note =
                        "I'm sorry, I'm having trouble connecting to the server right now."
              /\ ev'.active \in Ids(chats) => Cardinality(added) = 1]_vars

\* a send in the active chat failed with a 500 whose body carried a detail
C18_Witness ==
    /\ ev.op = "sendFailed" /\ ev.id = 500 /\ ev.detail # ""
    /\ LET ms == MessagesOf(chats, ev.active)
       IN  ms # <<>> /\ ms[Len(ms)].type = "ai" /\ ms[Len(ms)].content.note # ev.detail

\* C19: each accepted sendMessage issues exactly one request and nothing
\* else: a POST to /api/ocr if and only if an image is selected when it is
\* sent, otherwise a POST to /api/query.
C19_EndpointByImage ==
    [][(ev'.op = "sendMessage" /\ ev'.ok) =>
          /\ send.stage = "idle" /\ send'.stage = "post"
          /\ send'.endpoint \in {"/api/ocr", "/api/query"}
          /\ send'.endpoint = "/api/ocr" <=> selectedImage # NoImage
          /\ fetches' = fetches /\ deletes' = deletes]_vars

\* an image was sent without a question
C19_Witness ==
    /\ ev.op = "sendMessage" /\ ev.ok /\ Trim(ev.text) = <<>>
    /\ send.stage = "post" /\ send.endpoint = "/api/ocr"

C21_SizeLimit ==
    [][(ev'.op = "fileSelect" /\ StartsWith(ev'.file.type, ImagePrefix)) =>
          /\ ev'.ok <=> ev'.file.size <= 10 * 1024 * 1024
          /\ IF ev'.ok THEN selectedImage' = ev'.file
             ELSE UNCHANGED selectedImage]_vars

\* an image of exactly 10 * 1024 * 1024 bytes was accepted
C21_Witness ==
    /\ ev.op = "fileSelect" /\ ev.ok /\ ev.file.size = 10 * 1024 * 1024
    /\ selectedImage = ev.file

\* C22: in every reachable state, every chat whose local message list is not
\* empty has the timestamp of its last message as lastUpdated.
C22_LastUpdatedIsLastMessage ==
    \A i \in 1..Len(chats) :
        LET ms == chats[i].messages
        IN  ms # <<>> => chats[i].lastUpdated = ms[Len(ms)].timestamp

\* C23: once a send accepted in new-chat mode whose POST succeeded has
\* completed, activeChat is the chat_id of the response and chats holds a chat
\* with that id.
C23_NewChatActive ==
    (ev.op = "sendDone" /\ ev.active = Null) =>
        /\ activeChat = ev.call.chat_id
        /\ ev.call.chat_id \in Ids(chats)

\* C24: the chat the send was accepted in is the one its request names: the
\* request carries the activeChat of the moment the send was accepted, and
\* the backend appends to that chat when it is not null and creates a chat
\* exactly when it is null, for /api/query and /api/ocr alike.
C24_ChatIdIsCapturedChat ==
    [][/\ (ev'.op = "sendMessage" /\ ev'.ok) => send'.activeChat = activeChat
       /\ ev'.op = "postResponse" =>
              /\ RequestChatId(send.endpoint, send.activeChat) = send.activeChat
              /\ ev'.id = IF send.activeChat # Null THEN send.activeChat
                          ELSE nextChatId
              /\ Ids(serverChats') = Ids(serverChats) <=> send.activeChat # Null
              /\ Len(MessagesOf(serverChats', ev'.id))
                    = Len(MessagesOf(serverChats, ev'.id)) + 2]_vars

\* an image sent in an existing chat was stored in that chat
C24_Witness ==
    /\ ev.op = "postResponse" /\ send.endpoint = "/api/ocr"
    /\ send.activeChat # Null /\ ev.id = send.activeChat
    /\ Len(ServerMessages(ev.id)) = 4

\* C26: in every reachable state activeChat is null or the id of a chat that
\* is in chats.
C26_ActiveChatListed == activeChat = Null \/ activeChat \in Ids(chats)

\* C27: the optimistic user message and the error message of a send are
\* appended to the chat that was active when the send was accepted, whatever
\* chat is active when they are appended; the step that appends them leaves
\* every other chat as it was.
C27_AppendsToCapturedChat ==
    [][(ev'.op = "sendFailed" \/ (ev'.op = "sendMessage" /\ ev'.ok)) =>
          LET captured == ev'.active
              id == IF ev'.op = "sendFailed" THEN ErrorId(Now(nSends'))
                    ELSE TempId(Now(nSends'))
          IN  /\ ev'.op = "sendMessage" => captured = activeChat
              /\ Len(chats') = Len(chats)
              /\ \A i \in 1..Len(chats) :
                    IF chats[i].id = captured
                    THEN /\ chats'[i].id = captured
                         /\ Len(chats'[i].messages) = Len(chats[i].messages) + 1
                         /\ SubSeq(chats'[i].messages, 1, Len(chats[i].messages))
                                = chats[i].messages
                         /\ chats'[i].messages[Len(chats'[i].messages)].id = id
                    ELSE chats'[i] = chats[i]]_vars

\* the error message went to the chat of the send while another was active
C27_Witness ==
    /\ ev.op = "sendFailed" /\ ev.active # Null /\ activeChat # ev.active
    /\ activeChat # Null
    /\ LET ms == MessagesOf(chats, ev.active)
       IN  ms # <<>> /\ ms[Len(ms)].id = ErrorId(Now(nSends))
    /\ \A m \in SeqToSet(MessagesOf(chats, activeChat)) : ~IsLocalId(m.id)

\* C28 as claimed: the step in which a fetchChats, fetchMessages or
\* deleteChat request fails leaves chats, activeChat, inputValue,
\* selectedImage and isLoading as they were.
C28_FailureChangesNothing ==
    [][(IsFailure(ev') /\ ev'.op # "sendFailed") => UNCHANGED client]_vars

\* C28 as amended: the step in which a fetchChats, fetchMessages or
\* deleteChat request fails leaves chats and inputValue as they were, and
\* activeChat, selectedImage and isLoading too unless a send awaited the
\* request; that send then completes in the same step: isLoading becomes
\* false, selectedImage null, and activeChat the chat_id of the POST response
\* if the send was made in new-chat mode.
C28_FailureLeavesChats ==
    [][(IsFailure(ev') /\ ev'.op # "sendFailed") =>
          /\ chats' = chats /\ inputValue' = inputValue
          /\ IF ev'.op = "sendDone"
             THEN /\ ~isLoading' /\ selectedImage' = NoImage
                  /\ activeChat' = IF send.activeChat = Null THEN send.chat_id
                                   ELSE activeChat
             ELSE UNCHANGED client]_vars

\* a DELETE failed while the chat list and an image were there to lose
C28_Witness ==
    /\ ev.op = "deleteResponse" /\ ~ev.ok
    /\ ev.id \in Ids(chats) /\ selectedImage # NoImage

\* C29: when every request that is issued is answered, every accepted
\* sendMessage is followed by a state in which isLoading is false again,
\* whether its POST and the refetch it awaits succeed or fail.
C29_LoadingEnds == isLoading ~> ~isLoading

\* a send whose POST succeeded and whose awaited refetch failed has completed
C29_Witness ==
    ev.op = "sendDone" /\ ~ev.ok /\ ~isLoading /\ send = IdleSend

\* C25 as claimed: the bubble of an AI message holds, in line order, one
\* element per line that is not empty after trimming, of the kind of the first
\* rule the trimmed line matches: "# " heading 1, "## " heading 2, "### "
\* heading 3, the bullet character or "-" and a blank: bullet, digits followed
\* by a dot and a blank: numbered item, starts and ends with "**": bold
\* paragraph, otherwise paragraph.  The bubble of a user message holds its
\* raw text.
C25_FirstMatchingRule ==
    chatMessage.drawn =>
        LET m == chatMessage.message
            els == chatMessage.elements
            lines == Split(m.content)
            T(i) == Trim(lines[i])
            Numbered(t) ==
                \E n \in 1..(Len(t) - 2) :
                    /\ \A k \in 1..n : t[k] \in Digits
                    /\ t[n + 1] = "." /\ t[n + 2] \in {" "}
            Kind(t) ==
                IF StartsWith(t, <<"#", " ">>) THEN "h1"
                ELSE IF StartsWith(t, <<"#", "#", " ">>) THEN "h2"
                ELSE IF StartsWith(t, <<"#", "#", "#", " ">>) THEN "h3"
                ELSE IF StartsWith(t, <<BulletChar, " ">>)
                          \/ StartsWith(t, <<"-", " ">>) THEN "bullet"
                ELSE IF Numbered(t) THEN "numbered"
                ELSE IF StartsWith(t, <<"*", "*">>) /\ EndsWith(t, <<"*", "*">>)
                THEN "bold"
                ELSE "p"
            Filled == {i \in 1..Len(lines) : T(i) # <<>>}
            Shown == {k \in 1..Len(els) : els[k].tag # "spacer"}
            Place(i) ==
                CHOOSE k \in Shown :
                    Cardinality({j \in Shown : j <= k})
                        = Cardinality({j \in Filled : j <= i})
        IN  IF m.type = "user"
            THEN Len(els) = 1 /\ els[1].tag = "raw" /\ els[1].text = m.content
            ELSE /\ Cardinality(Shown) = Cardinality(Filled)
                 /\ \A i \in Filled : els[Place(i)].tag = Kind(T(i))

\* C25 as amended: the same, with a numbered item being digits followed by a
\* dot and any white-space character (a blank or a tab).
C25_FirstMatchingRuleWhitespace ==
    chatMessage.drawn =>
        LET m == chatMessage.message
            els == chatMessage.elements
            lines == Split(m.content)
            T(i) == Trim(lines[i])
            Numbered(t) ==
                \E n \in 1..(Len(t) - 2) :
                    /\ \A k \in 1..n : t[k] \in Digits
                    /\ t[n + 1] = "." /\ t[n + 2] \in Whitespace
            Kind(t) ==
                IF StartsWith(t, <<"#", " ">>) THEN "h1"
                ELSE IF StartsWith(t, <<"#", "#", " ">>) THEN "h2"
                ELSE IF StartsWith(t, <<"#", "#", "#", " ">>) THEN "h3"
                ELSE IF StartsWith(t, <<BulletChar, " ">>)
                          \/ StartsWith(t, <<"-", " ">>) THEN "bullet"
                ELSE IF Numbered(t) THEN "numbered"
                ELSE IF StartsWith(t, <<"*", "*">>) /\ EndsWith(t, <<"*", "*">>)
                THEN "bold"
                ELSE "p"
            Filled == {i \in 1..Len(lines) : T(i) # <<>>}
            Shown == {k \in 1..Len(els) : els[k].tag # "spacer"}
            Place(i) ==
                CHOOSE k \in Shown :
                    Cardinality({j \in Shown : j <= k})
                        = Cardinality({j \in Filled : j <= i})
        IN  IF m.type = "user"
            THEN Len(els) = 1 /\ els[1].tag = "raw" /\ els[1].text = m.content
            ELSE /\ Cardinality(Shown) = Cardinality(Filled)
                 /\ \A i \in Filled : els[Place(i)].tag = Kind(T(i))

\* a level-1 heading followed by a bullet was drawn
C25_Witness ==
    /\ chatMessage.drawn /\ chatMessage.message.type = "ai"
    /\ chatMessage.message.content = <<"#", " ", "T", "\n", "-", " ", "a">>
    /\ Len(chatMessage.elements) = 2
    /\ chatMessage.elements[1].tag = "h1" /\ chatMessage.elements[1].text = <<"T">>
    /\ chatMessage.elements[2].tag = "bullet" /\ chatMessage.elements[2].text = <<"a">>

\* C30: handleSubmit calls signup(name, email, password) exactly when the form
\* validates: the trimmed full name has at least 2 characters, the email holds
\* non-space characters, an "@", non-space characters, a "." and non-space
\* characters in a row, the password is not blank and has at least 6
\* characters, and confirmPassword equals password. When one of these fails
\* no call is made and errors has a message for each field that fails.
C30_SignupOnlyWhenValid ==
    [][signUpPage'.step = "handleSubmit" =>
          LET f == signUpPage.formData
              nameOk == Len(Trim(f.fullName)) >= 2
              emailOk ==
                  \E a \in 1..Len(f.email), d \in 1..Len(f.email) :
                      /\ \A k \in a..d : f.email[k] # " " /\ f.email[k] # "\t"
                      /\ \E b \in (a + 1)..d, c \in (a + 1)..d :
                            /\ f.email[b] = "@"
                            /\ f.email[c] = "."
                            /\ c > b + 1
                            /\ c < d
              passwordOk ==
                  /\ \E k \in 1..Len(f.password) :
                        f.password[k] # " " /\ f.password[k] # "\t"
                  /\ Len(f.password) >= 6
              confirmOk == f.confirmPassword = f.password
              valid == nameOk /\ emailOk /\ passwordOk /\ confirmOk
          IN  /\ signUpPage'.call.awaited <=> valid
              /\ valid =>
                    /\ signUpPage'.call.name = f.fullName
                    /\ signUpPage'.call.email = f.email
                    /\ signUpPage'.call.password = f.password
              /\ ~valid =>
                    /\ signUpPage'.call = NoCall
                    /\ ~signUpPage'.isLoading
                    /\ ~nameOk => signUpPage'.errors.fullName # ""
                    /\ ~emailOk => signUpPage'.errors.email # ""
                    /\ ~passwordOk => signUpPage'.errors.password # ""
                    /\ ~confirmOk => signUpPage'.errors.confirmPassword # ""
    ]_vars

\* C30 happens: a form with a one-letter name and a mismatched confirmation
\* was submitted and turned down with a message on both fields, and no call
C30_Witness ==
    /\ signUpPage.step = "handleSubmit"
    /\ signUpPage.formData.fullName = <<"a">>
    /\ signUpPage.formData.email = <<"a", "@", "b", ".", "c">>
    /\ signUpPage.formData.password = <<"a", "b", "c", "d", "e", "f">>
    /\ signUpPage.formData.confirmPassword = <<"a", "b", "c", "d", "e", " ">>
    /\ signUpPage.errors.fullName = "Full name must be at least 2 characters"
    /\ signUpPage.errors.confirmPassword = "Passwords do not match"
    /\ signUpPage.errors.email = ""
    /\ signUpPage.errors.password = ""
    /\ signUpPage.call = NoCall
    /\ ~signUpPage.isLoading

====
